---- MODULE Spec2Model ----
(***************************************************************************)
(* A model of finalproject.py, the guitar tuner: the Tk handlers           *)
(* save_input, tuner (take_audio, checknote, produce_graphics) and         *)
(* clear_plots, over the module-level state they read and write.           *)
(*                                                                         *)
(* Units.  The program's "cents" value is a float in semitones; the model  *)
(* keeps it as an integer number of hundredths of a semitone (floor), so   *)
(* 1.2 is 120 and 0.2 is 20.  Frequencies are exact rationals              *)
(* [num, den] in Hz.  Spectrum magnitudes are 0 or powers of two, so that  *)
(* their logarithms are exact.                                             *)
(***************************************************************************)
EXTENDS Integers, Sequences, FiniteSets, TLC

VARIABLES
    entry,          \* text in the entry box, a sequence of characters
    printed,        \* what save_input last printed to the console
    samplingtime,   \* module-level samplingtime, seconds
    totalsamples,   \* module-level totalsamples
    canvas_list,    \* number of canvases in canvas_list
    sound,          \* the sound at the microphone, as its weighted spectrum
    recorded,       \* the last recording: sleep duration and samples kept
    bestindex,      \* take_audio: selected peak bin
    peakindex,      \* take_audio: refined peak, as a grid index j
    bestfreq,       \* take_audio: frequency estimate, a rational in Hz
    cents,          \* take_audio: the cents value handed to checknote
    rawfreq_label,  \* text of rawfreq_label: the frequency in tenths of Hz
    result_label    \* text of result_label: [note, status]

vars == << entry, printed, samplingtime, totalsamples, canvas_list, sound,
           recorded, bestindex, peakindex, bestfreq, cents, rawfreq_label,
           result_label >>

(***************************************************************************)
(* Bounds of the model.                                                    *)
(***************************************************************************)
MaxLen == 1         \* longest text typed into the entry box
MaxCanvases == 2    \* most plots shown before Clear Plots is pressed
MaxLevel == 2       \* spectrum magnitudes are 0, 1, 2, ..., 2^MaxLevel

(***************************************************************************)
(* Program constants.                                                      *)
(***************************************************************************)
DefaultSamplingTime == 4
samplesize == 2048
samplespersec == 48000
lowestfreq == 80
highestfreq == 1200
GridPoints == 10000
A_4 == 440
StepsPerOctave == 12
CentsPerStep == 100
MatchRadius == 120      \* 1.2 semitones
InTuneRadius == 20      \* 0.2 semitones
A1 == 0
A2 == 12
B == 10
D == 7
E == 5
G == 2

Unset == "unset"

\* values before the first recording
NoRational == [num |-> 0, den |-> 1]
NoRecording == [slept |-> NoRational, nsamples |-> 0]
NoResult == [note |-> "", status |-> ""]
NoPrint == [text |-> "", value |-> NoRational]

Abs(x) == IF x < 0 THEN -x ELSE x
Min(a, b) == IF a <= b THEN a ELSE b

RECURSIVE Pow2(_)
Pow2(k) == IF k = 0 THEN 1 ELSE 2 * Pow2(k - 1)

RECURSIVE Gcd(_, _)
Gcd(a, b) == IF b = 0 THEN a ELSE Gcd(b, a % b)

(***************************************************************************)
(* np.log2 of a positive rational, in fixed point.                         *)
(***************************************************************************)
MantissaBits == 14
LogBits == 14
MantissaOne == Pow2(MantissaBits)
LogOne == Pow2(LogBits)

\* num/den scaled by a power of two into [1, 2): [n, d, e] with
\* num/den = (n/d) * 2^e.
RECURSIVE Normalise(_, _, _)
Normalise(n, d, e) ==
    IF n < d THEN Normalise(2 * n, d, e - 1)
    ELSE IF n >= 2 * d THEN Normalise(n, 2 * d, e + 1)
    ELSE [n |-> n, d |-> d, e |-> e]

\* floor((n/d) * 2^k) for n/d in [1, 2), by long division; m starts at 1
\* and r at n - d.
RECURSIVE Mantissa(_, _, _, _)
Mantissa(m, r, d, k) ==
    IF k = 0 THEN m
    ELSE IF 2 * r >= d THEN Mantissa(2 * m + 1, 2 * r - d, d, k - 1)
    ELSE Mantissa(2 * m, 2 * r, d, k - 1)

\* The fraction bits of log2 of m / 2^MantissaBits, by repeated squaring.
RECURSIVE LogFraction(_, _, _)
LogFraction(m, acc, k) ==
    IF k = 0 THEN acc
    ELSE LET sq == (m * m) \div MantissaOne
         IN  IF sq >= 2 * MantissaOne
             THEN LogFraction(sq \div 2, 2 * acc + 1, k - 1)
             ELSE LogFraction(sq, 2 * acc, k - 1)

\* log2(num/den) * 2^LogBits, rounded down.
Log2Fixed(num, den) ==
    LET nz == Normalise(num, den, 0)
        m  == Mantissa(1, nz.n - nz.d, nz.d, MantissaBits)
    IN  nz.e * LogOne + LogFraction(m, 0, LogBits)

(***************************************************************************)
(* take_audio, lines 159-165: frequency to cents.                          *)
(*   distancefromA4_cents = 1200 * np.log2(A_4/bestfreq)/100               *)
(*   cents = distancefromA4_cents % 12                                     *)
(* in hundredths of a semitone.                                            *)
(***************************************************************************)
CentsInverted(f) ==
    ((StepsPerOctave * CentsPerStep * Log2Fixed(f.num, A_4 * f.den))
        \div LogOne) % (StepsPerOctave * CentsPerStep)

CentsOf(f) ==
    ((StepsPerOctave * CentsPerStep * Log2Fixed(A_4 * f.den, f.num))
        \div LogOne) % (StepsPerOctave * CentsPerStep)

(***************************************************************************)
(* checknote.                                                              *)
(***************************************************************************)
sharpstatus == "you are sharp by more than 20 cents!"
flatstatus == "you are flat by more than 20 cents!"
intune == "you are in tune to within 20 cents!"
UnidentifiedNote == "an unidentified note"
WentWrong == "something went wrong! Please try again."

Anchors == << A1, A2, B, D, E, G >>
NoteName(a) == CASE a = A1 -> "A" [] a = A2 -> "A" [] a = B -> "B"
                 [] a = D -> "D" [] a = E -> "E" [] a = G -> "G"

\* cents - anchor, in hundredths of a semitone
Delta(c, a) == c - a * CentsPerStep

MatchesNarrow(c, a) == Abs(Delta(c, a)) < CentsPerStep

\* abs(cents - anchor) < 1.2
Matches(c, a) == Abs(Delta(c, a)) < MatchRadius

StatusSwapped(prev, delta) ==
    IF Abs(delta) < InTuneRadius THEN intune
    ELSE IF delta < 0 THEN flatstatus
    ELSE IF delta > 0 THEN sharpstatus
    ELSE prev

\* the inner if / elif / elif of a branch; with none taken, status keeps
\* the value it had
Status(prev, delta) ==
    IF Abs(delta) < InTuneRadius THEN intune
    ELSE IF delta < 0 THEN sharpstatus
    ELSE IF delta > 0 THEN flatstatus
    ELSE prev

\* one matching branch: note = ..., then the status
Branch(prev, c, a) ==
    [note |-> NoteName(a), status |-> Status(prev.status, Delta(c, a))]

checknote(c) ==
    LET start == [note |-> Unset, status |-> Unset]
        \* check A: a statement of its own
        afterA1 == IF Matches(c, A1) THEN Branch(start, c, A1) ELSE start
    IN  \* the second if with its elif chain and else
        IF Matches(c, A2) THEN Branch(afterA1, c, A2)
        ELSE IF Matches(c, B) THEN Branch(afterA1, c, B)
        ELSE IF Matches(c, D) THEN Branch(afterA1, c, D)
        ELSE IF Matches(c, E) THEN Branch(afterA1, c, E)
        ELSE IF Matches(c, G) THEN Branch(afterA1, c, G)
        ELSE [note |-> UnidentifiedNote, status |-> WentWrong]

(***************************************************************************)
(* save_input: float(entry.get()).                                         *)
(***************************************************************************)
Digits == {"0", "1", "2", "3", "4", "5", "6", "7", "8", "9"}
DigitVal(ch) == CASE ch = "0" -> 0 [] ch = "1" -> 1 [] ch = "2" -> 2
                  [] ch = "3" -> 3 [] ch = "4" -> 4 [] ch = "5" -> 5
                  [] ch = "6" -> 6 [] ch = "7" -> 7 [] ch = "8" -> 8
                  [] ch = "9" -> 9

\* characters the user types
EntryChars == {"2", "."}

RECURSIVE TextsOfLen(_)
TextsOfLen(n) ==
    IF n = 0 THEN { << >> }
    ELSE { Append(t, ch) : t \in TextsOfLen(n - 1), ch \in EntryChars }

Texts == UNION { TextsOfLen(n) : n \in 0..MaxLen }

\* float() accepts digits with at most one point and at least one digit
\* (of the texts over EntryChars); anything else raises ValueError
IsFloat(t) ==
    /\ \A i \in 1..Len(t) : t[i] \in Digits \cup {"."}
    /\ Cardinality({ i \in 1..Len(t) : t[i] = "." }) <= 1
    /\ \E i \in 1..Len(t) : t[i] \in Digits

RECURSIVE Pow10(_)
Pow10(k) == IF k = 0 THEN 1 ELSE 10 * Pow10(k - 1)

RECURSIVE DigitsValue(_)
DigitsValue(t) ==
    IF t = << >> THEN 0
    ELSE 10 * DigitsValue(SubSeq(t, 1, Len(t) - 1)) + DigitVal(t[Len(t)])

\* the value of a text IsFloat accepts, as a rational
FloatOf(t) ==
    LET digs == SelectSeq(t, LAMBDA ch : ch \in Digits)
        dot  == { i \in 1..Len(t) : t[i] = "." }
        frac == IF dot = {} THEN 0 ELSE Len(t) - (CHOOSE i \in dot : TRUE)
    IN  [num |-> DigitsValue(digs), den |-> Pow10(frac)]

(***************************************************************************)
(* take_audio.                                                             *)
(***************************************************************************)
Magnitudes == {0} \cup { Pow2(k) : k \in 0..MaxLevel }

\* bins where the sounds of the model have their peaks: around both ends of
\* the band and near 440 Hz
PeakBins == {3, 4, 19, 50, 51}

\* a sound is its weighted spectrum: flat at base, but for two bins
PeakPairs == { pq \in PeakBins \X PeakBins : pq[1] < pq[2] }

Sounds ==
    { [base |-> b, p1 |-> pq[1], m1 |-> m1, p2 |-> pq[2], m2 |-> m2] :
        b \in {0, 1}, pq \in PeakPairs, m1 \in Magnitudes,
        m2 \in Magnitudes }

\* smoothedspec[i]
smoothedspec(s, i) ==
    IF i = s.p1 THEN s.m1 ELSE IF i = s.p2 THEN s.m2 ELSE s.base

\* samples in data: read(samplesize) gives 2 bytes a sample, cut to
\* int(totalsamples) bytes, read as 16-bit integers
NumSamples(ts) == Min(2 * samplesize, ts) \div 2

\* i*freqconversion > lowestfreq and i*freqconversion < highestfreq
InBand(i) ==
    /\ i * samplespersec > lowestfreq * samplesize
    /\ i * samplespersec < highestfreq * samplesize

\* the in-band bins of a spectrum of full length samplesize
GoodOfFull == { i \in 0..(samplesize - 1) : InBand(i) }

\* [i for i in range(len(smoothedspec)) if ...]; len is at most samplesize
goodindices(len) == { i \in GoodOfFull : i < len }

SetMin(S) == CHOOSE x \in S : \A y \in S : x <= y
SetMax(S) == CHOOSE x \in S : \A y \in S : x >= y

\* argmax scanning k .. hi-1 with the best index so far: a later bin wins
\* only when strictly larger
RECURSIVE ArgMaxScan(_, _, _, _)
ArgMaxScan(s, k, hi, best) ==
    IF k >= hi THEN best
    ELSE IF smoothedspec(s, k) > smoothedspec(s, best)
         THEN ArgMaxScan(s, k + 1, hi, k)
         ELSE ArgMaxScan(s, k + 1, hi, best)

\* smoothedspec[lo:hi].argmax() + lo: the first index of the largest
\* magnitude among lo .. hi-1
SliceArgMax(s, lo, hi) == ArgMaxScan(s, lo + 1, hi, lo)

xvaluesInBand(b) ==
    << IF InBand(b - 1) THEN b - 1 ELSE b, b,
       IF InBand(b + 1) THEN b + 1 ELSE b >>

\* [i for i in range(bestindex - 1, bestindex + 2, 1)]
xvalues(b) == << b - 1, b, b + 1 >>

\* log2 of a magnitude 2^k; np.log is this times a positive constant, which
\* changes no argmax
RECURSIVE Level(_)
Level(m) == IF m = 1 THEN 0 ELSE 1 + Level(m \div 2)

CeilDiv(a, b) == -((-a) \div b)

\* The argmax over the grid of GridPoints points x_j = xvalues[0] + 2j/n,
\* n = GridPoints - 1, of the parabola through the three points with
\* ordinates y0, y1, y2: the index j of its first largest value.  With
\* u = 2j - n the parabola is, up to a positive factor and a constant,
\* (y2 - y0)*n*u + (y0 + y2 - 2*y1)*u*u.  Rounding in the floating-point
\* evaluation, which can move the result by a grid step, is not modelled.
GridArgMax(y0, y1, y2) ==
    LET n  == GridPoints - 1
        c1 == y2 - y0
        c2 == y0 + y2 - 2 * y1
    IN  IF c2 >= 0
        THEN \* convex or straight: an end of the range, the first on a tie
             IF c1 > 0 THEN n ELSE 0
        ELSE \* concave: the grid point nearest to the vertex
             \* j* = n*(c1 + 2a)/(4a), a = -c2; the lower of two on a tie
             LET a == -c2
                 j == CeilDiv(n * (c1 + 2 * a) - 2 * a, 4 * a)
             IN  IF j < 0 THEN 0 ELSE IF j > n THEN n ELSE j

\* With a magnitude of 0 among the three, np.log gives -inf and the
\* interpolant is not finite; which grid index argmax then returns depends
\* on the numpy / scipy build: the first, the middle or the last stand for
\* all of them.
NonFiniteChoices == {0, (GridPoints - 1) \div 2, GridPoints - 1}

\* the grid indices j that peakindex = xrange[yrange.argmax()] may be
PeakChoices(s, b) ==
    LET xs == xvalues(b)
        m0 == smoothedspec(s, xs[1])
        m1 == smoothedspec(s, xs[2])
        m2 == smoothedspec(s, xs[3])
    IN  IF m0 > 0 /\ m1 > 0 /\ m2 > 0
        THEN { GridArgMax(Level(m0), Level(m1), Level(m2)) }
        ELSE NonFiniteChoices

\* freqconversion = samplespersec/samplesize, in lowest terms
FreqNum == samplespersec \div Gcd(samplespersec, samplesize)
FreqDen == samplesize \div Gcd(samplespersec, samplesize)

\* bestfreq = peakindex * freqconversion, for the grid index j around b
BestFreq(b, j) ==
    [num |-> ((xvalues(b)[1]) * (GridPoints - 1) + 2 * j) * FreqNum,
     den |-> (GridPoints - 1) * FreqDen]

\* "%.1f" % bestfreq, in tenths of Hz
OneDecimal(f) == (f.num * 10 + f.den \div 2) \div f.den

\* what take_audio computes from the sound s, with the module-level
\* samplingtime st and totalsamples ts
take_audio(s, st, ts) ==
    LET len  == NumSamples(ts)
        good == goodindices(len)
        i1   == SetMin(good)
        i2   == SetMax(good)
        b    == SliceArgMax(s, i1, i2)
    IN  { [recorded |-> [slept |-> st, nsamples |-> len],
           bestindex |-> b,
           peakindex |-> j,
           bestfreq |-> BestFreq(b, j),
           cents |-> CentsOf(BestFreq(b, j))] : j \in PeakChoices(s, b) }

(***************************************************************************)
(* The handlers.                                                           *)
(***************************************************************************)
Audio == << bestindex, peakindex, bestfreq, cents, rawfreq_label,
            result_label, recorded >>
Globals == << samplingtime, totalsamples >>

\* the user edits the entry box
TypeEntry ==
    /\ \E t \in Texts : entry' = t
    /\ UNCHANGED << printed, Globals, canvas_list, sound, Audio >>

SaveInputGlobal ==
    /\ IF IsFloat(entry)
       THEN /\ printed' = [text |-> "Input saved:", value |-> FloatOf(entry)]
            /\ samplingtime' = FloatOf(entry)
       ELSE /\ printed' = [text |-> "Invalid input", value |-> NoRational]
            /\ UNCHANGED samplingtime
    /\ UNCHANGED << entry, totalsamples, canvas_list, sound, Audio >>

\* Save Input: samplingtime is assigned in the function, so it is a local
\* of save_input; the module-level samplingtime is not written
save_input ==
    /\ IF IsFloat(entry)
       THEN printed' = [text |-> "Input saved:", value |-> FloatOf(entry)]
       ELSE printed' = [text |-> "Invalid input", value |-> NoRational]
    /\ UNCHANGED << entry, Globals, canvas_list, sound, Audio >>

\* Begin Sampling: take_audio, checknote, produce_graphics
tuner ==
    /\ canvas_list < MaxCanvases
    /\ \E r \in take_audio(sound, samplingtime, totalsamples) :
        /\ recorded' = r.recorded
        /\ bestindex' = r.bestindex
        /\ peakindex' = r.peakindex
        /\ bestfreq' = r.bestfreq
        /\ rawfreq_label' = OneDecimal(r.bestfreq)
        /\ cents' = r.cents
        /\ result_label' = checknote(r.cents)
    /\ canvas_list' = canvas_list + 1
    /\ UNCHANGED << entry, printed, Globals, sound >>

\* Clear Plots
clear_plots ==
    /\ canvas_list' = 0
    /\ UNCHANGED << entry, printed, Globals, sound, Audio >>

\* the module's state when root.mainloop() starts, but for the sound
Start ==
    /\ entry = << >>
    /\ printed = NoPrint
    /\ samplingtime = [num |-> DefaultSamplingTime, den |-> 1]
    /\ totalsamples = samplespersec * DefaultSamplingTime
    /\ canvas_list = 0
    /\ recorded = NoRecording
    /\ bestindex = 0
    /\ peakindex = 0
    /\ rawfreq_label = 0

Init ==
    /\ Start
    /\ sound \in Sounds
    /\ bestfreq = NoRational
    /\ cents = 0
    /\ result_label = NoResult

Next == TypeEntry \/ save_input \/ tuner \/ clear_plots

Spec == Init /\ [][Next]_vars

(***************************************************************************)
(* The end of tuner on its own, from a given frequency estimate: the       *)
(* conversion to cents, then checknote.                                    *)
(***************************************************************************)
NoSound == [base |-> 0, p1 |-> 0, m1 |-> 0, p2 |-> 0, m2 |-> 0]

\* frequencies in tenths of Hz across the detectable band
Tones == (lowestfreq * 10)..(highestfreq * 10)

InitTone ==
    /\ Start
    /\ sound = NoSound
    /\ bestfreq \in { [num |-> f, den |-> 10] : f \in Tones }
    /\ cents = 0
    /\ result_label = NoResult

ClassifyTone ==
    /\ result_label = NoResult
    /\ cents' = CentsOf(bestfreq)
    /\ result_label' = checknote(CentsOf(bestfreq))
    /\ UNCHANGED << entry, printed, Globals, canvas_list, sound, recorded,
                    bestindex, peakindex, bestfreq, rawfreq_label >>

SpecTone == InitTone /\ [][ClassifyTone]_vars

(***************************************************************************)
(* checknote on its own, over every cents value in [0, 12).                *)
(***************************************************************************)
CentsValues == 0..(StepsPerOctave * CentsPerStep - 1)

InitNote ==
    /\ Start
    /\ sound = NoSound
    /\ bestfreq = NoRational
    /\ cents \in CentsValues
    /\ result_label = NoResult

ClassifyCents ==
    /\ result_label = NoResult
    /\ result_label' = checknote(cents)
    /\ UNCHANGED << entry, printed, Globals, canvas_list, sound, recorded,
                    bestindex, peakindex, bestfreq, cents, rawfreq_label >>

SpecNote == InitNote /\ [][ClassifyCents]_vars

(***************************************************************************)
(* The claims.                                                             *)
(***************************************************************************)
\* tuner has run at least once
Recorded == recorded.nsamples > 0
\* checknote has written result_label
Classified == result_label # NoResult
\* take_audio ended without an estimate and nothing reached checknote
NoEstimate == bestfreq = NoRational /\ result_label = NoResult

Octave == StepsPerOctave * CentsPerStep
FirstGood == SetMin(GoodOfFull)
LastGood == SetMax(GoodOfFull)

\* C1: a tone whose cents value is exactly a reference anchor (A at 0 and
\* at 12, which is 0 modulo 12, B at 10, D at 7, E at 5, G at 2) is
\* reported as that anchor's note, in tune; so is a 440 Hz tone (cents 0).
C1_AnchorRoundTrip ==
    \A k \in 1..Len(Anchors) :
        (Classified /\ cents = (Anchors[k] * CentsPerStep) % Octave)
            => result_label = [note |-> NoteName(Anchors[k]),
                               status |-> intune]

\* the tone 25 cents above 440 Hz, 446.4 Hz
TonePlus25 == [num |-> 4464, den |-> 10]

\* C2, as claimed: the tone 25 cents above 440 Hz is reported as A, flat.
C2_ReportedFlat ==
    (Classified /\ bestfreq = TonePlus25)
        => result_label = [note |-> "A", status |-> flatstatus]

\* C2, amended: the tone 25 cents above 440 Hz has a cents value just
\* below 12 and is reported as A, sharp; never in tune, never flat.
C2_ReportedSharp ==
    (Classified /\ bestfreq = TonePlus25)
        => /\ cents > A2 * CentsPerStep - MatchRadius
           /\ cents <= A2 * CentsPerStep - InTuneRadius
           /\ result_label = [note |-> "A", status |-> sharpstatus]

C2_Witness ==
    /\ Classified
    /\ bestfreq = TonePlus25
    /\ result_label.note = "A"

\* no bin of the detectable band has a positive magnitude
SilentBand ==
    \A i \in goodindices(recorded.nsamples) : smoothedspec(sound, i) = 0

\* C3: with no positive magnitude at any in-band bin, the estimation ends
\* in failure: no frequency estimate, and nothing is handed to checknote.
C3_NoPeakInRange == (Recorded /\ SilentBand) => NoEstimate

\* the three magnitudes around the selected peak bin are positive, so
\* their logarithms are finite
FinitePeak ==
    \A i \in (bestindex - 1)..(bestindex + 1) : smoothedspec(sound, i) > 0

BelowBin(f, i) == f.num * FreqDen < i * FreqNum * f.den
AboveBin(f, i) == f.num * FreqDen > i * FreqNum * f.den

C5_EstimateInBand ==
    (Recorded /\ FinitePeak)
        => /\ bestfreq.num >= lowestfreq * bestfreq.den
           /\ bestfreq.num <= highestfreq * bestfreq.den

\* the pitch classes that are no guitar string, in semitones
GapSemitones == {1, 3, 4, 6, 8, 9}

GapReport ==
    [k \in GapSemitones |->
        CASE k = 1 -> [note |-> "G", status |-> sharpstatus]
          [] k = 3 -> [note |-> "G", status |-> flatstatus]
          [] k = 4 -> [note |-> "E", status |-> sharpstatus]
          [] k = 6 -> [note |-> "D", status |-> sharpstatus]
          [] k = 8 -> [note |-> "D", status |-> flatstatus]
          [] k = 9 -> [note |-> "B", status |-> sharpstatus]]

Within(c) ==
    { k \in 1..Len(Anchors) :
        Abs(c - Anchors[k] * CentsPerStep) < MatchRadius }

\* C7: checknote reports the note of the first anchor, in the order A at
\* 0, A at 12, B, D, E, G, with |cents - anchor| < 1.2, and unidentified
\* only when there is none.
C7_FirstMatchWins ==
    Classified =>
        IF Within(cents) = {}
        THEN result_label.note = UnidentifiedNote
        ELSE result_label.note = NoteName(Anchors[SetMin(Within(cents))])

\* the anchor of the branch that produced a reported note: the branch of
\* the if / elif chain, which for A is that of the anchor at 12
ProducingAnchor(note, c) ==
    CASE note = "A" -> IF Abs(c - A2 * CentsPerStep) < MatchRadius
                       THEN A2 ELSE A1
      [] note = "B" -> B
      [] note = "D" -> D
      [] note = "E" -> E
      [] note = "G" -> G

\* C8: for a reported note, with delta = cents minus the anchor of the
\* branch that produced it, the verdict is in tune exactly when
\* |delta| < 0.2, sharp exactly when delta <= -0.2 and flat exactly when
\* delta >= 0.2; a verdict is always assigned.
C8_VerdictByDelta ==
    (Classified /\ result_label.note # UnidentifiedNote) =>
        LET delta == cents - ProducingAnchor(result_label.note, cents)
                                * CentsPerStep
        IN  /\ result_label.status \in {intune, sharpstatus, flatstatus}
            /\ result_label.status = intune <=> Abs(delta) < InTuneRadius
            /\ result_label.status = sharpstatus <=> delta <= -InTuneRadius
            /\ result_label.status = flatstatus <=> delta >= InTuneRadius

C8_Witness ==
    /\ Classified
    /\ result_label = [note |-> "A", status |-> sharpstatus]
    /\ cents = A2 * CentsPerStep - InTuneRadius

\* C9: the selected peak bin is in band, no in-band bin has a larger
\* magnitude, and no in-band bin of the same magnitude has a lower index.
C9_PeakIsBandMaximum ==
    Recorded =>
        /\ InBand(bestindex)
        /\ \A i \in goodindices(recorded.nsamples) :
            /\ smoothedspec(sound, i) <= smoothedspec(sound, bestindex)
            /\ smoothedspec(sound, i) = smoothedspec(sound, bestindex)
                   => bestindex <= i

====
